---- MODULE Spec2Model ----
(***************************************************************************)
(* A model of the multi-limb signed integer engine of src/bn.c.            *)
(*                                                                         *)
(* A struct bn is a record [l, nsig, nalloc, neg, ok]:                     *)
(*   l      the limb buffer, least significant limb first; C index i is    *)
(*          l[i + 1]; the NULL pointer is the empty sequence;              *)
(*   nsig   the number of significant limbs;                               *)
(*   nalloc the number of allocated limbs (always Len(l));                 *)
(*   neg    the sign flag, 0 or 1;                                         *)
(*   ok     FALSE once an assert() of the code has failed while the value  *)
(*          was computed (the process has aborted).                        *)
(*                                                                         *)
(* The limb primitives of sys/limb.h (limb_add, limb_sub, ...) and the     *)
(* limb geometry are not part of src/; they are modelled from section 4.1  *)
(* of the specification, with a limb of LIMB_BITS = 2 bits so that every   *)
(* carry, borrow and quotient-digit correction happens on short operands.  *)
(*                                                                         *)
(* The functions are operators on such records.  Three kinds of behaviour  *)
(* are specified over them:                                                *)
(*   SpecAdd .. SpecPow  one call of a function on every operand within    *)
(*                       the bounds: x, y, z are its operands and res what *)
(*                       it leaves;                                        *)
(*   Spec                a caller applying the functions in any order to   *)
(*                       three values x, y, z;                             *)
(*   SpecPrime           bn_new_prob_prime, one step of its loops at a     *)
(*                       time.                                             *)
(***************************************************************************)
EXTENDS Integers, Sequences, FiniteSets, TLC

VARIABLES pc, x, y, z, res

vars == <<pc, x, y, z, res>>

(***************************************************************************)
(* Limb geometry.                                                          *)
(***************************************************************************)
LIMB_BITS_LOG == 1
LIMB_BYTES_LOG == 0
LIMB_BITS == 2 ^ LIMB_BITS_LOG
LIMB_BITS_MASK == LIMB_BITS - 1
LIMB_BYTES == 2 ^ LIMB_BYTES_LOG
LIMB_BYTES_MASK == LIMB_BYTES - 1
\* bits of one byte of the byte-oriented interfaces (8 in the C build)
BYTE_BITS == LIMB_BITS \div LIMB_BYTES
Base == 2 ^ LIMB_BITS
LimbMax == Base - 1

(***************************************************************************)
(* Helpers on limb buffers.                                                *)
(***************************************************************************)
RECURSIVE LimbVal(_, _)
\* the integer held by the limbs l[0 .. n-1]
LimbVal(l, n) == IF n = 0 THEN 0 ELSE LimbVal(l, n - 1) + l[n] * Base ^ (n - 1)

\* v (mod Base^n) as n limbs
LimbSeq(v, n) == [i \in 1..n |-> (v \div Base ^ (i - 1)) % Base]

\* buffer l with the limbs s stored from C index off on
Put(l, off, s) ==
    [i \in 1..Len(l) |-> IF i > off /\ i <= off + Len(s) THEN s[i - off] ELSE l[i]]

\* n limbs of l from C index off on
Window(l, off, n) == [i \in 1..n |-> l[off + i]]

RECURSIVE BitAnd(_, _)
BitAnd(u, v) ==
    IF u = 0 \/ v = 0 THEN 0
    ELSE (IF u % 2 = 1 /\ v % 2 = 1 THEN 1 ELSE 0) + 2 * BitAnd(u \div 2, v \div 2)

(***************************************************************************)
(* Limb primitives (sys/limb.h), from section 4.1 of the specification.    *)
(* Each takes the buffer and the limb counts and returns the new buffer    *)
(* and the carry or borrow out.                                            *)
(***************************************************************************)
\* the low na limbs of the value v stored in a, and the limb above them
LimbOut(a, na, v) ==
    [l |-> Put(a, 0, LimbSeq(v % Base ^ na, na)), c |-> (v \div Base ^ na) % Base]

limb_add(a, na, b, nb) == LimbOut(a, na, LimbVal(a, na) + LimbVal(b, nb))

\* The borrow out is the limb above the two's-complement difference: 0, or
\* -1 (mod Base) when b is the larger.  This is the convention the caller at
\* lines 762-769 relies on: it adds limb_add's carry to limb_sub's borrow and
\* asserts that the sum has cancelled to 0.
limb_sub(a, na, b, nb) == LimbOut(a, na, LimbVal(a, na) - LimbVal(b, nb))

limb_mul(a, na, s) == LimbOut(a, na, LimbVal(a, na) * s)

Sign(d) == IF d < 0 THEN -1 ELSE IF d > 0 THEN 1 ELSE 0

limb_cmp(a, na, b, nb) == Sign(LimbVal(a, na) - LimbVal(b, nb))

limb_and(a, na, b, nb) ==
    Put(a, 0, [i \in 1..na |-> IF i <= nb THEN BitAnd(a[i], b[i]) ELSE 0])

\* limb i (from 1) of the na limbs of l, 0 outside them
LimbAt(l, na, i) == IF i >= 1 /\ i <= na THEN l[i] ELSE 0

\* the na limbs of l shifted left by c bits, stored as mx limbs: each limb
\* takes the low bits of the limb c \div LIMB_BITS below it and the bits
\* shifted out of the one below that
limb_shl(l, na, mx, c) ==
    Put(l, 0, [i \in 1..mx |->
                  ((LimbAt(l, na, i - (c \div LIMB_BITS)) * 2 ^ (c % LIMB_BITS)) % Base)
                  + ((LimbAt(l, na, i - (c \div LIMB_BITS) - 1) * 2 ^ (c % LIMB_BITS))
                     \div Base)])

\* the na limbs of l shifted right by c bits, stored as mx limbs; the limbs
\* from mx on are left as they were
limb_shr(l, na, mx, c) ==
    Put(l, 0, [i \in 1..mx |->
                  (LimbAt(l, na, i + (c \div LIMB_BITS)) \div 2 ^ (c % LIMB_BITS))
                  + ((LimbAt(l, na, i + (c \div LIMB_BITS) + 1)
                      * 2 ^ (LIMB_BITS - (c % LIMB_BITS))) % Base)])

(***************************************************************************)
(* struct bn and its lifecycle.                                            *)
(***************************************************************************)
Bn(l, nsig, neg) == [l |-> l, nsig |-> nsig, nalloc |-> Len(l), neg |-> neg, ok |-> TRUE]

\* the value is marked as computed by an aborted process
Abort(b) == [b EXCEPT !.ok = FALSE]

bn_new_zero == Bn(<<>>, 0, 0)

bn_is_zero(b) == b.nalloc = 0 /\ b.nsig = 0 /\ b.neg = 0 /\ b.l = <<>>

bn_is_one(b) == b.nsig = 1 /\ b.neg = 0 /\ b.l[1] = 1

bn_is_even(b) == IF bn_is_zero(b) THEN TRUE ELSE b.l[1] % 2 = 0

\* the condition asserted by bn_nsig_invariant
NsigOk(b) == bn_is_zero(b) \/ (b.nsig >= 1 /\ b.l[b.nsig] # 0)

bn_nsig_invariant(b) == IF NsigOk(b) THEN b ELSE Abort(b)

bn_test_bit(b, bit) ==
    (b.l[(bit \div LIMB_BITS) + 1] \div 2 ^ (bit % LIMB_BITS)) % 2

RECURSIVE bn_bsr(_)
\* index of the highest set bit of a nonzero limb
bn_bsr(v) == IF v <= 1 THEN 0 ELSE 1 + bn_bsr(v \div 2)

bn_msb(b) ==
    IF bn_is_zero(b) THEN 0
    ELSE (b.nsig - 1) * LIMB_BITS + bn_bsr(b.l[b.nsig])

\* bn_zero without the reset of the sign
bn_zero_keepneg(b) == [b EXCEPT !.l = <<>>, !.nsig = 0, !.nalloc = 0]

bn_zero(b) == [b EXCEPT !.l = <<>>, !.nsig = 0, !.nalloc = 0, !.neg = 0]

\* calloc zero-fills a fresh buffer; the limbs added by realloc are
\* uninitialised, and every caller stores them before reading (bn_push_back
\* the one new limb, bn_add_abs by memset, bn_shl through limb_shl)
bn_expand(b, nalloc) ==
    IF nalloc <= b.nalloc THEN b
    ELSE [b EXCEPT !.l = b.l \o [i \in 1..(nalloc - b.nalloc) |->
                                    IF b.l = <<>> THEN 0 ELSE LimbMax],
                   !.nalloc = nalloc]

\* ++b->nsig; b->l[b->nsig - 1] = v
StoreTop(e, v) == [e EXCEPT !.nsig = e.nsig + 1, !.l[e.nsig + 1] = v]

bn_push_back(b, v) == StoreTop(bn_expand(b, b.nsig + 1), v)

RECURSIVE TopNonZero(_, _)
\* the loop of bn_snap: one past the highest C index below n holding a nonzero limb
TopNonZero(l, n) == IF n = 0 \/ l[n] # 0 THEN n ELSE TopNonZero(l, n - 1)

\* bn_snap once the loop has found i
SnapTo(b, i) ==
    IF i = b.nsig THEN b
    ELSE IF i = 0 THEN bn_zero(b)
    ELSE IF b.nsig - i > 1
         THEN [b EXCEPT !.l = SubSeq(b.l, 1, i), !.nalloc = i, !.nsig = i]
         ELSE [b EXCEPT !.nsig = i]

bn_snap(b) == SnapTo(b, TopNonZero(b.l, b.nsig))

bn_new_copy(b) ==
    IF bn_is_zero(b) THEN [bn_new_zero EXCEPT !.ok = b.ok]
    ELSE [l |-> SubSeq(b.l, 1, b.nsig), nsig |-> b.nsig, nalloc |-> b.nsig,
          neg |-> b.neg, ok |-> b.ok]

\* the limb v with bit k set
SetBit(v, k) == IF (v \div 2 ^ k) % 2 = 1 THEN v ELSE v + 2 ^ k

\* b->l[l] |= 1 << ix after the two asserts; nsig is left as it is
bn_set_bit(b, ix) ==
    IF ~b.ok \/ ix < 0 \/ ix > b.nalloc * LIMB_BITS - 1 THEN Abort(b)
    ELSE [b EXCEPT !.l[(ix \div LIMB_BITS) + 1] = SetBit(@, ix % LIMB_BITS)]

\* BN_INVALID: no struct; every function asserts that it is not handed one
BN_INVALID == Abort(bn_new_zero)

RECURSIVE PackLimb(_, _, _)
\* the limb k of the big-endian bytes, packed from its byte j on:
\* val |= bytes[i] << (j << 3), a byte being BYTE_BITS bits here
PackLimb(bytes, k, j) ==
    IF j = LIMB_BYTES \/ k * LIMB_BYTES + j >= Len(bytes) THEN 0
    ELSE bytes[Len(bytes) - (k * LIMB_BYTES + j)] * 2 ^ (j * BYTE_BITS)
         + PackLimb(bytes, k, j + 1)

\* b->nalloc = len >> LIMB_BYTES_LOG; if (len & LIMB_BYTES_MASK) ++b->nalloc
BytesAlloc(len) == (len \div LIMB_BYTES) + (IF len % LIMB_BYTES # 0 THEN 1 ELSE 0)

bn_new_from_bytes(bytes) ==
    IF Len(bytes) <= 0 THEN BN_INVALID
    ELSE bn_snap(Bn([k \in 1..BytesAlloc(Len(bytes)) |-> PackLimb(bytes, k - 1, 0)],
                    BytesAlloc(Len(bytes)), 0))

\* the limbs r.l stored in a, and the carry r.c pushed when there is one
StoreCarry(a, r) ==
    bn_nsig_invariant(IF r.c # 0 THEN bn_push_back([a EXCEPT !.l = r.l], r.c)
                                 ELSE [a EXCEPT !.l = r.l])

\* bn_mul_limb without the push of the carry limb
bn_mul_limb_nocarry(a, s) ==
    IF bn_is_zero(a) THEN a
    ELSE IF s = 0 THEN bn_zero(a)
    ELSE bn_nsig_invariant([a EXCEPT !.l = limb_mul(a.l, a.nsig, s).l])

bn_mul_limb(a, s) ==
    IF bn_is_zero(a) THEN a
    ELSE IF s = 0 THEN bn_zero(a)
    ELSE StoreCarry(a, limb_mul(a.l, a.nsig, s))

(***************************************************************************)
(* Addition and subtraction.                                               *)
(***************************************************************************)
bn_cmp_abs(a, b) == limb_cmp(a.l, a.nsig, b.l, b.nsig)

\* the difference r stored in a with the sign neg, then assert(r == 0),
\* bn_snap, bn_nsig_invariant: the tail of bn_sub_abs
SubAbsTail(a, neg, r) ==
    IF r.c # 0 THEN Abort(a)
    ELSE bn_nsig_invariant(bn_snap([a EXCEPT !.l = r.l, !.neg = neg]))

\* bn_sub_abs once the magnitudes are compared
SubAbsOn(a, b, cmp, t) ==
    IF cmp = 0 THEN bn_zero(a)
    ELSE IF cmp < 0 THEN SubAbsTail(t, 1, limb_sub(t.l, t.nsig, a.l, a.nsig))
    ELSE SubAbsTail(a, 0, limb_sub(a.l, a.nsig, b.l, b.nsig))

bn_sub_abs(a, b) == SubAbsOn(a, b, bn_cmp_abs(a, b), bn_new_copy(b))

\* bn_expand to n limbs, the memset of the limbs from from on, nsig = n
ZeroFill(e, from, n) ==
    [e EXCEPT !.l = Put(e.l, from, [i \in 1..(n - from) |-> 0]), !.nsig = n]

\* bn_add_abs once a has at least the limbs of b
AddAbsOn(a, b) == StoreCarry(a, limb_add(a.l, a.nsig, b.l, b.nsig))

bn_add_abs(a, b) ==
    IF a.nsig < b.nsig
    THEN AddAbsOn(ZeroFill(bn_expand(a, b.nsig), a.nsig, b.nsig), b)
    ELSE AddAbsOn(a, b)

\* if (!bn_is_zero(a)) a->neg = !a->neg
FlipSign(s) == IF ~bn_is_zero(s) THEN [s EXCEPT !.neg = 1 - s.neg] ELSE s

\* bn_add_sub without the sign flip after subtracting from a negative a
bn_add_sub_noflip(a, b, add) ==
    IF add THEN bn_add_abs(a, b)
    ELSE IF a.neg # 0 THEN bn_sub_abs([a EXCEPT !.neg = 0], b)
    ELSE bn_sub_abs(a, b)

bn_add_sub(a, b, add) ==
    IF add THEN bn_add_abs(a, b)
    ELSE IF a.neg # 0 THEN FlipSign(bn_sub_abs([a EXCEPT !.neg = 0], b))
    ELSE bn_sub_abs(a, b)

bn_add(a, b) ==
    IF ~(a.ok /\ b.ok) THEN Abort(a) ELSE bn_add_sub(a, b, a.neg = b.neg)

bn_sub(a, b) ==
    IF ~(a.ok /\ b.ok) THEN Abort(a) ELSE bn_add_sub(a, b, a.neg # b.neg)

(***************************************************************************)
(* Bitwise and, shifts.                                                    *)
(***************************************************************************)
bn_and(a, b) ==
    IF ~(a.ok /\ b.ok) THEN Abort(a)
    ELSE IF bn_is_zero(a) THEN a
    ELSE IF bn_is_zero(b) THEN bn_zero(a)
    ELSE bn_snap([a EXCEPT !.l = limb_and(a.l, a.nsig, b.l, b.nsig)])

\* limbs needed for nbits bits
LimbsFor(nbits) ==
    (nbits \div LIMB_BITS) + (IF nbits % LIMB_BITS # 0 THEN 1 ELSE 0)

\* bn_shr once the bits left are counted
ShrTo(a, c, nbits, mx) ==
    IF nbits <= 0 THEN bn_zero(a)
    ELSE IF mx > a.nsig THEN Abort(a)
    ELSE bn_nsig_invariant(bn_snap(
             [a EXCEPT !.l = limb_shr(a.l, a.nsig, mx, c), !.nsig = mx]))

bn_shr(a, c) ==
    IF ~a.ok THEN a
    ELSE IF c = 0 \/ bn_is_zero(a) THEN a
    ELSE IF ~NsigOk(a) THEN Abort(a)
    ELSE ShrTo(a, c, bn_msb(a) + 1 - c, LimbsFor(bn_msb(a) + 1 - c))

\* bn_shl once the buffer e holds mx limbs
ShlTo(e, na, c, mx) ==
    bn_nsig_invariant([e EXCEPT !.l = limb_shl(e.l, na, mx, c), !.nsig = mx])

bn_shl(a, c) ==
    IF ~a.ok THEN a
    ELSE IF c = 0 \/ bn_is_zero(a) THEN a
    ELSE IF ~NsigOk(a) THEN Abort(a)
    ELSE ShlTo(bn_expand(a, LimbsFor(bn_msb(a) + 1 + c)), a.nsig, c,
               LimbsFor(bn_msb(a) + 1 + c))

(***************************************************************************)
(* Multiplication (Karatsuba).                                             *)
(***************************************************************************)
\* the sign given to a product at the end of bn_mul_kar
SetSign(a, neg) == IF ~bn_is_zero(a) THEN [a EXCEPT !.neg = neg] ELSE a

\* the split point: the longer operand's limb count, made even, halved
KarMx(na, nb) ==
    ((IF na >= nb THEN na ELSE nb) + (IF (IF na >= nb THEN na ELSE nb) % 2 = 1 THEN 1 ELSE 0))
        \div 2

\* al/bl, the part of a below the split mx, copied into a zeroed struct and
\* snapped
KarLow(a, mx) ==
    IF mx < a.nsig THEN bn_snap(Bn(Window(a.l, 0, mx), mx, 0))
    ELSE bn_snap(Bn(Window(a.l, 0, a.nsig), a.nsig, 0))

\* ah/bh, the part of a from the split mx on
KarHigh(a, mx) ==
    IF mx < a.nsig THEN bn_snap(Bn(Window(a.l, mx, a.nsig - mx), a.nsig - mx, 0))
    ELSE bn_new_zero

\* ra = (z2 << 2*mx limbs) + (z1 << mx limbs) + z0, with the sign neg
KarShift(z2, z1, z0, mx, neg) ==
    bn_nsig_invariant(SetSign(
        bn_add(bn_add(bn_shl(z2, 2 * mx * LIMB_BITS), bn_shl(z1, mx * LIMB_BITS)), z0),
        neg))

\* z1 = (al - ah) * (bh - bl) + z2 + z0
KarMiddle(z2, zm, z0, mx, neg) ==
    KarShift(z2, bn_add(bn_add(zm, z2), z0), z0, mx, neg)

RECURSIVE bn_mul_kar(_, _)
\* the three recursive products on the parts
KarParts(al, ah, bl, bh, mx, neg) ==
    KarMiddle(bn_mul_kar(bn_new_copy(ah), bh),
              bn_mul_kar(bn_sub(al, ah), bn_sub(bh, bl)),
              bn_mul_kar(bn_new_copy(al), bl), mx, neg)

\* the Karatsuba step for two operands of at least two limbs
KarSplit(a, b, mx, neg) ==
    KarParts(KarLow(a, mx), KarHigh(a, mx), KarLow(b, mx), KarHigh(b, mx), mx, neg)

bn_mul_kar(a, b) ==
    IF ~(a.ok /\ b.ok) THEN Abort(a)
    ELSE IF bn_is_zero(a) THEN a
    ELSE IF bn_is_zero(b) THEN bn_zero(a)
    ELSE IF b.nsig = 1
         THEN SetSign(bn_mul_limb(a, b.l[1]), IF a.neg # b.neg THEN 1 ELSE 0)
    ELSE IF a.nsig = 1
         THEN SetSign(bn_mul_limb(bn_new_copy(b), a.l[1]), IF a.neg # b.neg THEN 1 ELSE 0)
    ELSE KarSplit(a, b, KarMx(a.nsig, b.nsig), IF a.neg # b.neg THEN 1 ELSE 0)

\* bn_snap and bn_nsig_invariant on the product
MulTail(p) == IF ~p.ok THEN p ELSE bn_nsig_invariant(bn_snap(p))

bn_mul(a, b) == MulTail(bn_mul_kar(a, b))

(***************************************************************************)
(* Division (Knuth Algorithm D).                                           *)
(***************************************************************************)
\* bn_rev_limbs that leaves the limbs in the order they were stored
bn_rev_limbs_none(b) == b

bn_rev_limbs(b) ==
    [b EXCEPT !.l = [k \in 1..Len(b.l) |-> IF k <= b.nsig THEN b.l[b.nsig - k + 1] ELSE b.l[k]]]

\* Step D3, first estimate, for limbs of base B: q is a limb_t, so the
\* quotient v / bh is cut to a limb
DivEstimateAt(B, ah, al, bh) ==
    IF ah = bh THEN B - 1 ELSE ((ah * B + al) \div bh) % B

DivEstimate(ah, al, bh) == DivEstimateAt(Base, ah, al, bh)

\* step D3 without its correction loop: the first estimate is kept
DivCorrectAt_none(B, q, v, bh, bl, low, n) == [q |-> q, n |-> n]

RECURSIVE DivCorrectAt(_, _, _, _, _, _, _)
\* the while (1) loop of step D3 on limb2_t values, for limbs of base B: the
\* estimate it leaves and the number of times it decremented; low is
\* ta->l[j - 2]
DivCorrectAt(B, q, v, bh, bl, low, n) ==
    LET rem == (v - q * bh) % (B * B)
    IN  IF rem \div B # 0 THEN [q |-> q, n |-> n]
        ELSE IF q * bl <= rem * B + low THEN [q |-> q, n |-> n]
        ELSE DivCorrectAt(B, q - 1, v, bh, bl, low, n + 1)

DivCorrect(q, v, bh, bl, low, n) == DivCorrectAt(Base, q, v, bh, bl, low, n)

\* assert(t->nsig == tb->nsig || t->nsig == tb->nsig + 1)
DivProductOk(t, n) == t.ok /\ (t.nsig = n \/ t.nsig = n + 1)

\* if (sr) { --q; sr += limb_add(...); } assert(sr == 0): s is what limb_sub
\* left, ad what limb_add leaves on it
DivAddBack(q, t, n, s, ad) ==
    IF s.c # 0
    THEN [w |-> ad.l, q |-> (q - 1) % Base, back |-> TRUE,
          ok |-> DivProductOk(t, n) /\ (s.c + ad.c) % Base = 0]
    ELSE [w |-> s.l, q |-> q, back |-> FALSE, ok |-> DivProductOk(t, n)]

\* the subtraction of the product t = tb * q from the window w
DivSubtract(w, tb, q, t, s) ==
    DivAddBack(q, t, tb.nsig, s, limb_add(s.l, tb.nsig + 1, tb.l, tb.nsig))

\* Step D4 for the estimate q on the window w = ta[j - n .. j], with the
\* product t: the window left, the final digit, and whether the asserts of
\* lines 760 and 769 hold
DivProduct(w, tb, q, t) ==
    DivSubtract(w, tb, q, t, limb_sub(w, tb.nsig + 1, t.l, t.nsig))

DivMulSub(w, tb, q) == DivProduct(w, tb, q, bn_mul_limb(bn_new_copy(tb), q))

\* a->l[i] = q at the end of an iteration, and the loop's ++i
DivPut(st, q) == [st EXCEPT !.al[st.i + 1] = q, !.i = st.i + 1]

\* whether the digit q stored for the window w is floor(w / tb) and the
\* window left, w2, is w - q * tb with 0 <= w2 < tb (recorded for the
\* properties)
DivExact(w, tb, q, w2) ==
    /\ q = LimbVal(w, tb.nsig + 1) \div LimbVal(tb.l, tb.nsig)
    /\ LimbVal(w2, tb.nsig + 1) = LimbVal(w, tb.nsig + 1) % LimbVal(tb.l, tb.nsig)

\* Step D5 for a zero digit: the window stays as it is
DivSkip(st, w, tb) == DivPut([st EXCEPT !.exact = st.exact /\ DivExact(w, tb, 0, w)], 0)

\* the window after step D4 stored back in ta, and the digit in a
DivApply(st, j, tb, d) ==
    DivPut([st EXCEPT !.ta = Put(st.ta, j - tb.nsig, d.w),
                      !.back = st.back \/ d.back,
                      !.exact = st.exact
                                /\ DivExact(Window(st.ta, j - tb.nsig, tb.nsig + 1), tb,
                                            d.q, d.w),
                      !.ok = d.ok], d.q)

\* what the iteration did, recorded for the properties: whether it read
\* ta->l[j - 2] with j < 2, the most decrements of one correction loop,
\* whether ah exceeded bh
DivSeen(st, j, over, q0, c, v, bh) ==
    [st EXCEPT !.oob = st.oob \/ (/\ j < 2
                                  /\ q0 # 0
                                  /\ \/ c.n > 0
                                     \/ ((v - c.q * bh) % (Base * Base)) \div Base = 0),
               !.dec = IF q0 # 0 /\ c.n > st.dec THEN c.n ELSE st.dec,
               !.over = st.over \/ over]

\* the iteration once the estimate q0 and the corrected estimate q are known
DivStep(st, j, tb, q0, q) ==
    IF q0 = 0 \/ q = 0 THEN DivSkip(st, Window(st.ta, j - tb.nsig, tb.nsig + 1), tb)
    ELSE DivApply(st, j, tb,
                  DivMulSub(Window(st.ta, j - tb.nsig, tb.nsig + 1), tb, q))

\* the iteration once step D3 has run
DivCorrected(st, j, tb, bh, ah, v, q0, c) ==
    DivStep(DivSeen(st, j, ah > bh, q0, c, v, bh), j, tb, q0, c.q)

\* the iteration on ah = ta->l[j], al = ta->l[j - 1] and low = ta->l[j - 2]
DivEstimated(st, j, tb, bh, bl, ah, al, low) ==
    DivCorrected(st, j, tb, bh, ah, ah * Base + al, DivEstimate(ah, al, bh),
                 DivCorrect(DivEstimate(ah, al, bh), ah * Base + al, bh, bl, low, 0))

\* one iteration of the digit loop for the window ending at C index j; st
\* holds ta->l, a->l, i, and what has been observed so far.  ta->l[j - 2]
\* lies before the buffer when j = 1; then tb->nsig = 1 and bl = 0, so the
\* comparison that reads it holds whatever it holds
DivDigit(st, j, tb, bh, bl) ==
    DivEstimated(st, j, tb, bh, bl, st.ta[j + 1], st.ta[j],
                 IF j >= 2 THEN st.ta[j - 1] ELSE LimbMax)

RECURSIVE DivLoop(_, _, _, _, _)
\* for (i = 0, j = ta->nsig - 1; j >= tb->nsig; --j, ++i); an assert that
\* fails ends the run
DivLoop(st, j, tb, bh, bl) ==
    IF j < tb.nsig \/ ~st.ok THEN st
    ELSE DivLoop(DivDigit(st, j, tb, bh, bl), j - 1, tb, bh, bl)

\* what bn_div leaves: q in a, r in *r, and what the digit loop did
DivOut(qa, ra, st) ==
    [q |-> [qa EXCEPT !.ok = qa.ok /\ ra.ok], r |-> ra, oob |-> st.oob,
     dec |-> st.dec, over |-> st.over, back |-> st.back, exact |-> st.exact]

\* Form the quotient
DivQuotient(a, st) ==
    IF st.i = 0 THEN bn_zero(a)
    ELSE bn_snap(bn_rev_limbs([a EXCEPT !.l = st.al, !.nsig = st.i]))

\* the end of bn_div, after the digit loop
DivFinish(a, ta, ls, st) ==
    IF ~st.ok THEN DivOut(Abort(a), Abort(a), st)
    ELSE DivOut(DivQuotient(a, st), bn_shr(bn_snap([ta EXCEPT !.l = st.ta]), ls), st)

\* the digit loop on the normalised and padded operands
DivRun(a, ta, tb, ls) ==
    DivFinish(a, ta, ls,
              DivLoop([ta |-> ta.l, al |-> a.l, i |-> 0, ok |-> ta.ok /\ tb.ok,
                       oob |-> FALSE, dec |-> 0, over |-> FALSE, back |-> FALSE,
                       exact |-> TRUE],
                      ta.nsig - 1, tb, tb.l[tb.nsig],
                      IF tb.nsig > 1 THEN tb.l[tb.nsig - 1] ELSE 0))

\* if (ta->nsig == a->nsig) bn_push_back(ta, 0)
DivPad(a, ta, tb, ls) ==
    IF ta.nsig = a.nsig THEN DivRun(a, bn_push_back(ta, 0), tb, ls)
    ELSE DivRun(a, ta, tb, ls)

\* the normalising shift by ls
DivNormalize(a, b, ls) ==
    IF ls # 0 THEN DivPad(a, bn_shl(bn_new_copy(a), ls), bn_shl(bn_new_copy(b), ls), ls)
    ELSE DivPad(a, bn_new_copy(a), b, ls)

\* bn_div(a, b, &r): q is what is left in a, r the remainder returned; oob,
\* dec, over, back and exact record what the digit loop did
bn_div(a, b) ==
    IF ~(a.ok /\ b.ok) \/ bn_is_zero(b)
    THEN [q |-> Abort(a), r |-> Abort(a), oob |-> FALSE, dec |-> 0,
          over |-> FALSE, back |-> FALSE, exact |-> TRUE]
    ELSE DivNormalize(a, b, LIMB_BITS_MASK - bn_bsr(b.l[b.nsig]))

\* assert(bn_cmp_abs(a, ta) == 0) on chk = q * b + rem, then *a = *rem
ModCheck(a, r, chk) ==
    IF ~chk.ok \/ bn_cmp_abs(chk, bn_new_copy(a)) # 0 THEN Abort(a) ELSE r

\* bn_mod after its call of bn_div
ModOn(a, b, d) == ModCheck(a, d.r, bn_add(bn_mul(d.q, b), d.r))

\* bn_mod(a, b): the remainder replaces a, after the self-check of line 812
bn_mod(a, b) == ModOn(a, b, bn_div(a, b))

(***************************************************************************)
(* Binary GCD.                                                             *)
(***************************************************************************)
RECURSIVE GcdLoop(_, _, _)
\* the for (;;) of bn_gcd: the surviving operand and the count i of common
\* factors of two
GcdLoop(a, tb, i) ==
    IF ~(a.ok /\ tb.ok) THEN [g |-> Abort(a), i |-> i]
    ELSE IF bn_is_zero(tb) THEN [g |-> a, i |-> i]
    ELSE IF bn_is_zero(a) THEN [g |-> tb, i |-> i]
    ELSE IF bn_is_even(a) /\ bn_is_even(tb) THEN GcdLoop(bn_shr(a, 1), bn_shr(tb, 1), i + 1)
    ELSE IF bn_is_even(a) THEN GcdLoop(bn_shr(a, 1), tb, i)
    ELSE IF bn_is_even(tb) THEN GcdLoop(a, bn_shr(tb, 1), i)
    ELSE IF bn_cmp_abs(a, tb) >= 0 THEN GcdLoop(bn_shr(bn_sub(a, tb), 1), tb, i)
    ELSE GcdLoop(a, bn_shr(bn_sub(tb, a), 1), i)

\* bn_shl(gcd, i); bn_snap(gcd)
GcdOut(e) == IF ~e.g.ok THEN e.g ELSE bn_snap(bn_shl(e.g, e.i))

\* bn_gcd without the shift that restores the common factors of two
bn_gcd_noshift(a, b) ==
    IF ~(a.ok /\ b.ok) \/ a.neg # 0 \/ b.neg # 0 THEN Abort(a)
    ELSE bn_snap(GcdLoop(a, bn_new_copy(b), 0).g)

bn_gcd(a, b) ==
    IF ~(a.ok /\ b.ok) \/ a.neg # 0 \/ b.neg # 0 THEN Abort(a)
    ELSE GcdOut(GcdLoop(a, bn_new_copy(b), 0))

(***************************************************************************)
(* Modular inverse (extended Euclid on bn_div).                            *)
(***************************************************************************)
bn_one == bn_push_back(bn_new_zero, 1)

RECURSIVE InvLoop(_, _, _, _)
\* one iteration of the for (;;) of bn_mod_inv after its call of bn_div
InvStep(r1, s0, s1, d) ==
    IF ~d.q.ok THEN [r1 |-> Abort(r1), s1 |-> s1]
    ELSE IF bn_is_zero(d.r) THEN [r1 |-> r1, s1 |-> s1]
    ELSE InvLoop(r1, d.r, s1, bn_sub(s0, bn_mul(d.q, s1)))

\* the for (;;) of bn_mod_inv: r1 and s1 at the break
InvLoop(r0, r1, s0, s1) == InvStep(r1, s0, s1, bn_div(r0, r1))

\* the end of bn_mod_inv on the snapped r1 and on s1 after the addition of m
InvOut(a, r1, s1) ==
    IF ~r1.ok THEN [ret |-> 0, a |-> Abort(a)]
    ELSE IF r1.neg # 0 \/ r1.nsig # 1 \/ r1.l[1] # 1 THEN [ret |-> 0, a |-> a]
    ELSE IF ~s1.ok THEN [ret |-> 0, a |-> Abort(a)]
    ELSE [ret |-> 1, a |-> bn_snap(s1)]

\* assert(s1->neg == 0)
InvPositive(s1) == IF s1.neg # 0 THEN Abort(s1) ELSE s1

\* if (s1->neg) { bn_add(s1, m); assert(s1->neg == 0); }
InvAdd(s1, m) == IF s1.neg # 0 THEN InvPositive(bn_add(s1, m)) ELSE s1

\* bn_mod_inv after the loop
InvEnd(a, m, e) ==
    IF ~(e.r1.ok /\ e.s1.ok) THEN [ret |-> 0, a |-> Abort(a)]
    ELSE InvOut(a, bn_snap(e.r1), InvAdd(e.s1, m))

\* bn_mod_inv without the addition of m to a negative s1
bn_mod_inv_noadd(a, m) ==
    IF ~(a.ok /\ m.ok) \/ a.neg # 0 \/ m.neg # 0 THEN [ret |-> 0, a |-> Abort(a)]
    ELSE InvOut(a, bn_snap(InvLoop(bn_new_copy(a), bn_new_copy(m), bn_one, bn_new_zero).r1),
                InvLoop(bn_new_copy(a), bn_new_copy(m), bn_one, bn_new_zero).s1)

\* bn_mod_inv(a, m): ret is the value returned, a what is left in a
bn_mod_inv(a, m) ==
    IF ~(a.ok /\ m.ok) \/ a.neg # 0 \/ m.neg # 0 THEN [ret |-> 0, a |-> Abort(a)]
    ELSE InvEnd(a, m, InvLoop(bn_new_copy(a), bn_new_copy(m), bn_one, bn_new_zero))

(***************************************************************************)
(* Montgomery exponentiation.                                              *)
(***************************************************************************)
\* struct bn_ctx_mont and whether the asserts of bn_ctx_mont_new hold; t1 is
\* r * rinv mod m, d the division of r * rinv - 1 by m
CtxOut(m, msb, r, rinv, mask, one, t1, d) ==
    [msb |-> msb, m |-> bn_new_copy(m), r |-> r, mask |-> mask, one |-> one,
     rinv |-> rinv, factor |-> d.q,
     ok |-> /\ ~bn_is_even(m)
            /\ NsigOk(m)
            /\ msb >= 1
            /\ r.ok /\ mask.ok /\ one.ok /\ rinv.ok
            /\ t1.ok /\ bn_is_one(t1)
            /\ d.q.ok /\ bn_is_zero(d.r)]

\* bn_ctx_mont_new from t = r * rinv on
CtxFactor(m, msb, r, rinv, t) ==
    CtxOut(m, msb, r, rinv, bn_sub(bn_new_copy(r), bn_one), bn_mod(bn_new_copy(r), m),
           bn_mod(t, m), bn_div(bn_sub(bn_new_copy(t), bn_one), m))

\* bn_ctx_mont_new from rinv on
CtxRinv(m, msb, r, rinv) == CtxFactor(m, msb, r, rinv, bn_mul(bn_new_copy(r), rinv))

\* bn_ctx_mont_new from r on
CtxR(m, msb, r) == CtxRinv(m, msb, r, bn_mod_inv(bn_new_copy(r), m).a)

bn_ctx_mont_new(m) == CtxR(m, bn_msb(m), bn_shl(bn_new_copy(bn_one), bn_msb(m) + 1))

bn_to_mont(ctx, b) ==
    IF bn_is_zero(b) THEN b ELSE bn_mod(bn_shl(b, ctx.msb + 1), ctx.m)

bn_from_mont(ctx, b) ==
    IF bn_is_zero(b) THEN b ELSE bn_mod(bn_mul(b, ctx.rinv), ctx.m)

\* the reduction of the product t, up to the shift by msb + 1
MontShift(ctx, t) ==
    bn_shr(bn_add(bn_mul(bn_and(bn_mul(bn_and(t, ctx.mask), ctx.factor), ctx.mask), ctx.m),
                  bn_new_copy(t)),
           ctx.msb + 1)

\* if (bn_cmp_abs(a, ctx->m) >= 0) bn_sub(a, ctx->m)
MontSub(ctx, s) == IF s.ok /\ bn_cmp_abs(s, ctx.m) >= 0 THEN bn_sub(s, ctx.m) ELSE s

\* assert(bn_cmp_abs(a, ctx->m) < 0)
MontCheck(ctx, v) == IF ~v.ok \/ bn_cmp_abs(v, ctx.m) >= 0 THEN Abort(v) ELSE v

\* bn_mul_mont without the final conditional subtraction of m
bn_mul_mont_nosub(ctx, a, b) ==
    IF ~(a.ok /\ b.ok) THEN Abort(a)
    ELSE IF a.neg # 0 \/ b.neg # 0 \/ bn_cmp_abs(a, ctx.m) >= 0 \/ bn_cmp_abs(b, ctx.m) >= 0
    THEN Abort(a)
    ELSE MontCheck(ctx, MontShift(ctx, bn_mul(a, b)))

bn_mul_mont(ctx, a, b) ==
    IF ~(a.ok /\ b.ok) THEN Abort(a)
    ELSE IF a.neg # 0 \/ b.neg # 0 \/ bn_cmp_abs(a, ctx.m) >= 0 \/ bn_cmp_abs(b, ctx.m) >= 0
    THEN Abort(a)
    ELSE MontCheck(ctx, MontSub(ctx, MontShift(ctx, bn_mul(a, b))))

RECURSIVE PowLoop(_, _, _, _, _, _)
\* for (i = 0; i < nbits; ++i) of bn_mod_pow: the accumulator pow at the end
PowLoop(ctx, pow, a, e, i, nbits) ==
    IF i >= nbits \/ ~(pow.ok /\ a.ok) THEN [pow EXCEPT !.ok = pow.ok /\ a.ok]
    ELSE PowLoop(ctx,
                 IF bn_test_bit(e, i) = 1 THEN bn_mul_mont(ctx, pow, a) ELSE pow,
                 IF i < nbits - 1 THEN bn_mul_mont(ctx, a, a) ELSE a,
                 e, i + 1, nbits)

\* bn_mod_pow with the context ctx
PowOn(a, e, ctx) ==
    IF ~NsigOk(e) \/ ~ctx.ok THEN Abort(a)
    ELSE bn_from_mont(ctx, PowLoop(ctx, bn_new_copy(ctx.one), bn_to_mont(ctx, a), e, 0,
                                   bn_msb(e) + 1))

bn_mod_pow(a, e, m) ==
    IF ~(a.ok /\ e.ok /\ m.ok) THEN Abort(a)
    ELSE IF bn_is_zero(a) THEN a
    ELSE IF bn_is_zero(e) THEN bn_push_back(bn_zero(a), 1)
    ELSE PowOn(a, e, bn_ctx_mont_new(m))

(***************************************************************************)
(* Signed integer value of a bn and canonical form (the claims' reference  *)
(* notions, not code).                                                     *)
(***************************************************************************)
Mag(b) == LimbVal(b.l, b.nsig)

IntOf(b) == IF b.neg = 1 THEN 0 - Mag(b) ELSE Mag(b)

Canonical(b) ==
    \/ b.nsig = 0 /\ b.nalloc = 0 /\ b.l = <<>> /\ b.neg = 0
    \/ b.nsig > 0 /\ b.nsig <= b.nalloc /\ b.l[b.nsig] # 0

\* the canonical bn of the integer v, in a buffer of exactly its limbs
RECURSIVE NLimbs(_)
NLimbs(v) == IF v = 0 THEN 0 ELSE 1 + NLimbs(v \div Base)

BnOf(v) ==
    LET m == IF v < 0 THEN 0 - v ELSE v
    IN  Bn(LimbSeq(m, NLimbs(m)), NLimbs(m), IF v < 0 THEN 1 ELSE 0)

(***************************************************************************)
(* Operands: every canonical value of at most the given number of bits.    *)
(***************************************************************************)
AddBits == 5
MulBits == 7
DivBitsA == 7
DivBitsB == 6
GcdBits == 6
InvBits == 6
PowBitsA == 5
PowBitsE == 3
PowBitsM == 5

Signed(bits) == {BnOf(v) : v \in (1 - 2 ^ bits)..(2 ^ bits - 1)}

Unsigned(bits) == {BnOf(v) : v \in 0..(2 ^ bits - 1)}

\* the moduli bn_ctx_mont_new accepts: odd and at least 3
OddModuli(bits) == {BnOf(v) : v \in {u \in 3..(2 ^ bits - 1) : u % 2 = 1}}

None == [op |-> "none"]

(***************************************************************************)
(* The calls.  Each takes its operands from x, y, z and leaves in res what *)
(* the call leaves to its caller; the operands themselves are passed by    *)
(* const pointer or copied, and stay as they are.                          *)
(***************************************************************************)
Call(op, r) ==
    /\ pc = "in"
    /\ pc' = op
    /\ res' = r
    /\ UNCHANGED <<x, y, z>>

CallAdd == Call("add", bn_add(x, y))

CallSub == Call("sub", bn_sub(x, y))

CallMul == Call("mul", bn_mul(x, y))

CallDiv == Call("div", bn_div(x, y))

CallMod == Call("mod", bn_mod(x, y))

CallGcd == Call("gcd", bn_gcd(x, y))

CallInv == Call("inv", bn_mod_inv(x, y))

CallPow == Call("pow", bn_mod_pow(x, y, z))

InitOn(X, Y, Z) ==
    /\ pc = "in"
    /\ x \in X
    /\ y \in Y
    /\ z \in Z
    /\ res = None

InitAdd == InitOn(Signed(AddBits), Signed(AddBits), {bn_new_zero})

NextAdd == CallAdd \/ CallSub

SpecAdd == InitAdd /\ [][NextAdd]_vars

InitMul == InitOn(Signed(MulBits), Signed(MulBits), {bn_new_zero})

NextMul == CallMul

SpecMul == InitMul /\ [][NextMul]_vars

\* the divisor is nonzero: bn_div asserts it
InitDiv == InitOn(Signed(DivBitsA), Signed(DivBitsB) \ {bn_new_zero}, {bn_new_zero})

NextDiv == CallDiv \/ CallMod

SpecDiv == InitDiv /\ [][NextDiv]_vars

InitGcd == InitOn(Unsigned(GcdBits), Unsigned(GcdBits), {bn_new_zero})

NextGcd == CallGcd

SpecGcd == InitGcd /\ [][NextGcd]_vars

InitInv == InitOn(Unsigned(InvBits), Unsigned(InvBits), {bn_new_zero})

NextInv == CallInv

SpecInv == InitInv /\ [][NextInv]_vars

InitPow == InitOn(Unsigned(PowBitsA), Unsigned(PowBitsE), OddModuli(PowBitsM))

NextPow == CallPow

SpecPow == InitPow /\ [][NextPow]_vars

\* bn_mod_pow on small bases and exponents with the two moduli next to 1000:
\* the even 1000 and the odd 1001
ScenarioBitsA == 2
ScenarioBitsE == 4

ScenarioModuli == {BnOf(1000), BnOf(1001)}

InitScenario == InitOn(Unsigned(ScenarioBitsA), Unsigned(ScenarioBitsE), ScenarioModuli)

NextScenario == CallPow

SpecScenario == InitScenario /\ [][NextScenario]_vars

(***************************************************************************)
(* bn_new_prob_prime(nbits), one step of its loops at a time.              *)
(*   y  the call's inputs: nbits and the table read from primes.bin;       *)
(*   x  the candidate n;                                                   *)
(*   z  the locals of the running inner loop: i, t (trial division) and a  *)
(*      (the Fermat base);                                                 *)
(*   res  the value returned, or where the process aborted.                *)
(***************************************************************************)
PrimeBits == 6

\* the number of bases of the Fermat loop
FermatBases == 10

bn_two == bn_push_back(bn_new_zero, 2)

\* nbytes = nbits >> 3; if (nbits & 7) ++nbytes, a byte being BYTE_BITS bits
PrimeBytes(nbits) == (nbits \div BYTE_BITS) + (IF nbits % BYTE_BITS # 0 THEN 1 ELSE 0)

\* what rndm_fill can leave in the nbytes bytes
RandomBytes(nbytes) == [1..nbytes -> 0..(2 ^ BYTE_BITS - 1)]

\* the tables of small primes whose entries fit the limb of a->l[0] = primes[i]
PrimeTables == {<<>>, <<2>>, <<3>>, <<2, 3>>}

\* n = bn_new_from_bytes(bytes, nbytes); bn_set_bit(n, 0); bn_set_bit(n, nbits - 1)
PrimeCandidate(bytes, nbits) ==
    bn_set_bit(bn_set_bit(bn_new_from_bytes(bytes), 0), nbits - 1)

\* a = bn_new_copy(one); a->l[0] = primes[i]
TrialDivisor(p) == [bn_new_copy(bn_one) EXCEPT !.l[1] = p]

\* memcpy(t->l, n->l, n->nsig << LIMB_BYTES_LOG); t->nsig = n->nsig
TrialRestore(t, n) ==
    [t EXCEPT !.l = Put(t.l, 0, SubSeq(n.l, 1, n.nsig)), !.nsig = n.nsig]

NoLocals == [i |-> 0, t |-> bn_new_zero, a |-> bn_new_zero]

\* an assert fails or the process faults
PrimeAbort(why) ==
    /\ pc' = "abort"
    /\ res' = [op |-> "abort", why |-> why]
    /\ UNCHANGED <<x, y, z>>

\* bn_add(n, two); continue
PrimeAdvance ==
    /\ x' = bn_add(x, bn_two)
    /\ pc' = "check"
    /\ z' = NoLocals
    /\ UNCHANGED <<y, res>>

\* lines 1138-1159: the random bytes, the candidate and its two forced bits
PrimeSample ==
    /\ pc = "start"
    /\ \E bytes \in RandomBytes(PrimeBytes(y.nbits)) :
          /\ x' = PrimeCandidate(bytes, y.nbits)
          /\ pc' = IF PrimeCandidate(bytes, y.nbits).ok THEN "check" ELSE "abort"
          /\ res' = IF PrimeCandidate(bytes, y.nbits).ok THEN res
                    ELSE [op |-> "abort", why |-> "bn_set_bit"]
    /\ UNCHANGED <<y, z>>

\* lines 1163-1169: the head of the for (;;)
PrimeCheck ==
    /\ pc = "check"
    /\ IF ~NsigOk(x) THEN PrimeAbort("bn_msb")
       ELSE IF bn_msb(x) >= y.nbits THEN PrimeAbort("overflow")
       ELSE /\ pc' = "trial"
            /\ z' = [i |-> 0, t |-> bn_new_copy(x), a |-> bn_new_zero]
            /\ UNCHANGED <<x, y, res>>

\* lines 1176-1183 after the call of bn_div, which left d.q in t and d.r in
\* rem.  The memcpy into a buffer t->l that bn_div has freed or shrunk below
\* n->nsig limbs is undefined: the process faults, or runs on with t->l as
\* it is
TrialOn(d) ==
    IF ~d.q.ok THEN PrimeAbort("bn_div")
    ELSE IF bn_is_zero(d.r) THEN PrimeAdvance
    ELSE IF d.q.nalloc < x.nsig
    THEN \/ PrimeAbort("memcpy")
         \/ /\ z' = [z EXCEPT !.t = [d.q EXCEPT !.nsig = x.nsig], !.i = z.i + 1]
            /\ UNCHANGED <<pc, x, y, res>>
    ELSE /\ z' = [z EXCEPT !.t = TrialRestore(d.q, x), !.i = z.i + 1]
         /\ UNCHANGED <<pc, x, y, res>>

\* lines 1171-1184: one trial division
PrimeTrial ==
    /\ pc = "trial"
    /\ z.i < Len(y.primes)
    /\ z.t.nalloc >= z.t.nsig
    /\ TrialOn(bn_div(z.t, TrialDivisor(y.primes[z.i + 1])))

\* a trial division on a t whose buffer is short of t->nsig limbs: bn_div
\* copies t->nsig limbs out of it
PrimeTrialFault ==
    /\ pc = "trial"
    /\ z.i < Len(y.primes)
    /\ z.t.nalloc < z.t.nsig
    /\ PrimeAbort("bn_new_copy")

\* lines 1185-1195: the table is exhausted with comp = 0
PrimeTrialDone ==
    /\ pc = "trial"
    /\ z.i >= Len(y.primes)
    /\ pc' = "fermat"
    /\ z' = [i |-> 0, t |-> bn_new_zero, a |-> bn_new_copy(bn_two)]
    /\ UNCHANGED <<x, y, res>>

\* lines 1199-1206 after the call of bn_mod_pow, which left its result in t
FermatOn(t) ==
    IF ~t.ok THEN PrimeAbort("bn_mod_pow")
    ELSE IF ~bn_is_one(t) THEN PrimeAdvance
    ELSE /\ z' = [z EXCEPT !.a = bn_add(z.a, bn_one), !.i = z.i + 1]
         /\ UNCHANGED <<pc, x, y, res>>

\* lines 1197-1207: one base of the Fermat loop, nm1 being n - 1
PrimeFermat ==
    /\ pc = "fermat"
    /\ z.i < FermatBases
    /\ FermatOn(bn_mod_pow(bn_new_copy(z.a), bn_sub(bn_new_copy(x), bn_one), x))

\* lines 1210-1219: if (i == 10) break; return n
PrimeAccept ==
    /\ pc = "fermat"
    /\ z.i = FermatBases
    /\ pc' = "done"
    /\ res' = x
    /\ UNCHANGED <<x, y, z>>

InitPrime ==
    /\ pc = "start"
    /\ x = bn_new_zero
    /\ y \in [nbits : 2..PrimeBits, primes : PrimeTables]
    /\ z = NoLocals
    /\ res = None

NextPrime ==
    \/ PrimeSample
    \/ PrimeCheck
    \/ PrimeTrial
    \/ PrimeTrialFault
    \/ PrimeTrialDone
    \/ PrimeFermat
    \/ PrimeAccept

SpecPrime == InitPrime /\ [][NextPrime]_vars

(***************************************************************************)
(* A caller working on three values: a in x, b (or the exponent e) in y    *)
(* and the modulus m in z.  Every function of the interface is called on   *)
(* them in any order; a call whose assert fails ends the process, and      *)
(* with it the three values.                                               *)
(***************************************************************************)
SeqBits == 3
SeqBytes == 2
MaxShift == 2

\* the operand is short enough for a call that lets it grow
Fits(b) == Mag(b) < 2 ^ SeqBits

\* the byte strings handed to bn_new_from_bytes
ByteStrings == UNION {[1..n -> 0..(2 ^ BYTE_BITS - 1)] : n \in 1..SeqBytes}

\* the process aborts inside the call op
SeqAbort(op) ==
    /\ pc' = "abort"
    /\ res' = [op |-> "abort", why |-> op]
    /\ x' = BN_INVALID
    /\ y' = BN_INVALID
    /\ z' = BN_INVALID

\* the call op has left r in a
SeqInPlace(op, r) ==
    /\ pc = "run"
    /\ IF r.ok THEN x' = r /\ UNCHANGED <<pc, y, z, res>> ELSE SeqAbort(op)

SeqFromBytes ==
    /\ pc = "run"
    /\ \E bytes \in ByteStrings : x' = bn_new_from_bytes(bytes)
    /\ UNCHANGED <<pc, y, z, res>>

\* bn_new_copy of one value, kept in the place of another
SeqCopy ==
    /\ pc = "run"
    /\ \/ Fits(x) /\ y' = bn_new_copy(x) /\ UNCHANGED <<x, z>>
       \/ Fits(x) /\ z' = bn_new_copy(x) /\ UNCHANGED <<x, y>>
       \/ x' = bn_new_copy(y) /\ UNCHANGED <<y, z>>
       \/ x' = bn_new_copy(z) /\ UNCHANGED <<y, z>>
    /\ UNCHANGED <<pc, res>>

SeqAdd == Fits(x) /\ SeqInPlace("bn_add", bn_add(x, y))

SeqSub == Fits(x) /\ SeqInPlace("bn_sub", bn_sub(x, y))

SeqMul == Fits(x) /\ SeqInPlace("bn_mul", bn_mul(x, y))

\* bn_div(a, b, &r) has left d.q in a and returned d.r: the caller goes on
\* with the quotient, or frees it and goes on with the remainder
SeqDivOn(d) ==
    IF d.q.ok THEN (x' = d.q \/ x' = d.r) /\ UNCHANGED <<pc, y, z, res>>
    ELSE SeqAbort("bn_div")

SeqDiv == pc = "run" /\ SeqDivOn(bn_div(x, y))

SeqMod == SeqInPlace("bn_mod", bn_mod(x, y))

SeqAnd == SeqInPlace("bn_and", bn_and(x, y))

SeqShl == Fits(x) /\ \E c \in 1..MaxShift : SeqInPlace("bn_shl", bn_shl(x, c))

SeqShr == \E c \in 1..MaxShift : SeqInPlace("bn_shr", bn_shr(x, c))

SeqGcd == SeqInPlace("bn_gcd", bn_gcd(x, y))

SeqModInv == SeqInPlace("bn_mod_inv", bn_mod_inv(x, z).a)

SeqModPow == SeqInPlace("bn_mod_pow", bn_mod_pow(x, y, z))

Init ==
    /\ pc = "run"
    /\ x = bn_new_zero
    /\ y = bn_new_zero
    /\ z = bn_new_zero
    /\ res = None

Next ==
    \/ SeqFromBytes
    \/ SeqCopy
    \/ SeqAdd
    \/ SeqSub
    \/ SeqMul
    \/ SeqDiv
    \/ SeqMod
    \/ SeqAnd
    \/ SeqShl
    \/ SeqShr
    \/ SeqGcd
    \/ SeqModInv
    \/ SeqModPow

Spec == Init /\ [][Next]_vars

(***************************************************************************)
(* Reference arithmetic on integers.                                       *)
(***************************************************************************)
Abs(v) == IF v < 0 THEN 0 - v ELSE v

Divides(d, v) == d # 0 /\ v % d = 0

\* g is the greatest common divisor of u and v: it divides both and no
\* larger common divisor exists; gcd(u, 0) = gcd(0, u) = u
IsGcd(g, u, v) ==
    IF u = 0 THEN g = v
    ELSE IF v = 0 THEN g = u
    ELSE /\ Divides(g, u)
         /\ Divides(g, v)
         /\ \A d \in 1..u : Divides(d, u) /\ Divides(d, v) => d <= g

Coprime(u, v) == IsGcd(1, u, v)

RECURSIVE PowRef(_, _, _)
\* a^e mod m by repeated multiply-and-reduce
PowRef(a, e, m) == IF e = 0 THEN 1 % m ELSE (PowRef(a, e - 1, m) * (a % m)) % m

RECURSIVE LimbsTimesPlus(_, _, _)
\* the limbs of l * m + c, least significant first, for small m and c
LimbsTimesPlus(l, m, c) ==
    IF l = <<>> THEN LimbSeq(c, NLimbs(c))
    ELSE <<(l[1] * m + c) % Base>> \o LimbsTimesPlus(Tail(l), m, (l[1] * m + c) \div Base)

RECURSIVE FromDecimal(_)
\* the limbs of the number with the decimal digits d, most significant first
FromDecimal(d) ==
    IF d = <<>> THEN <<>>
    ELSE LimbsTimesPlus(FromDecimal(SubSeq(d, 1, Len(d) - 1)), 10, d[Len(d)])

\* the canonical non-negative bn of a decimal numeral
BnDec(d) == Bn(FromDecimal(d), Len(FromDecimal(d)), 0)

(***************************************************************************)
(* bn_div on the dividends 1000000000000 .. 1000000000000 + ScenarioSpan   *)
(* and the divisors 97 - ScenarioSpan .. 97.                               *)
(***************************************************************************)
ScenarioSpan == 9

\* the last place u runs past 9 when the span is raised: the value is still
\* 1000000000000 + u
ScenarioDividends ==
    {BnDec(<<1, 0, 0, 0, 0, 0, 0, 0, 0, 0, 0, 0, u>>) : u \in 0..ScenarioSpan}

ScenarioDivisors == {BnOf(v) : v \in (97 - ScenarioSpan)..97}

InitDivScenario == InitOn(ScenarioDividends, ScenarioDivisors, {bn_new_zero})

NextDivScenario == CallDiv

SpecDivScenario == InitDivScenario /\ [][NextDivScenario]_vars

(***************************************************************************)
(* One iteration of bn_div's digit loop (lines 697-774) on the values of   *)
(* the window ta[j - n .. j] and of the normalised divisor, for limbs of   *)
(* twice the model's width: at base 4 the first estimate is never more     *)
(* than one too high, at base 16 it can be two too high.                   *)
(*   x  the window's value W, y the divisor's value D, z the divisor's     *)
(*      number of limbs n;                                                 *)
(*   pc "window" before the iteration, "digit" after it.                   *)
(***************************************************************************)
WIDE_BITS == 2 ^ (LIMB_BITS_LOG + 1)

WideBase == 2 ^ WIDE_BITS

DigitLimbs == 3

\* if (sr) { --q; sr += limb_add(...); } assert(sr == 0) on values: s is the
\* n + 1 limbs limb_sub left, borrow its borrow out
DigitAddBack(B, n, D, q, s, borrow) ==
    IF borrow # 0
    THEN [w |-> (s + D) % B ^ (n + 1), q |-> (q - 1) % B, back |-> TRUE,
          ok |-> (borrow + (s + D) \div B ^ (n + 1)) % B = 0]
    ELSE [w |-> s, q |-> q, back |-> FALSE, ok |-> TRUE]

\* Step D4 on values: t = tb * q has n or n + 1 limbs (line 760), and the
\* window loses it modulo B^(n + 1), with limb_sub's borrow out
DigitMulSub(B, n, W, D, q) ==
    IF D * q >= B ^ (n + 1) THEN [w |-> W, q |-> q, back |-> FALSE, ok |-> FALSE]
    ELSE DigitAddBack(B, n, D, q, (W - D * q) % B ^ (n + 1),
                      IF W < D * q THEN B - 1 ELSE 0)

\* the iteration once step D3 has run: q0 the first estimate, c what the
\* correction loop left
DigitCorrected(B, n, W, D, over, q0, c) ==
    IF q0 = 0 \/ c.q = 0
    THEN [q |-> 0, w |-> W, back |-> FALSE, ok |-> TRUE, over |-> over,
          dec |-> IF q0 = 0 THEN 0 ELSE c.n]
    ELSE [q |-> DigitMulSub(B, n, W, D, c.q).q,
          w |-> DigitMulSub(B, n, W, D, c.q).w,
          back |-> DigitMulSub(B, n, W, D, c.q).back,
          ok |-> DigitMulSub(B, n, W, D, c.q).ok,
          over |-> over, dec |-> c.n]

\* the iteration on ah = ta->l[j], al = ta->l[j - 1], low = ta->l[j - 2] and
\* the divisor's top limbs bh and bl
DigitEstimated(B, n, W, D, ah, al, low, bh, bl) ==
    DigitCorrected(B, n, W, D, ah > bh, DivEstimateAt(B, ah, al, bh),
                   DivCorrectAt(B, DivEstimateAt(B, ah, al, bh), ah * B + al, bh, bl,
                                low, 0))

\* one iteration for a divisor of n >= 2 limbs
DigitStep(B, n, W, D) ==
    DigitEstimated(B, n, W, D, W \div B ^ n, (W \div B ^ (n - 1)) % B,
                   (W \div B ^ (n - 2)) % B, D \div B ^ (n - 1),
                   (D \div B ^ (n - 2)) % B)

CallDigit ==
    /\ pc = "window"
    /\ pc' = "digit"
    /\ res' = DigitStep(WideBase, z, x, y)
    /\ UNCHANGED <<x, y, z>>

\* the lowest limbs of the window and of the divisor are 0 or all ones
DigitLow == {0, WideBase - 1}

\* normalised divisors of n limbs: the top limb has its top bit set
DigitDivisors(n) ==
    {bh * WideBase ^ (n - 1) + bl * WideBase ^ (n - 2) + b0 :
         bh \in (WideBase \div 2)..(WideBase - 1), bl \in 0..(WideBase - 1),
         b0 \in DigitLow}

\* windows of n + 1 limbs
DigitWindows(n) ==
    {ah * WideBase ^ n + al * WideBase ^ (n - 1) + w1 * WideBase ^ (n - 2) + w0 :
         ah \in 0..(WideBase - 1), al \in 0..(WideBase - 1), w1 \in DigitLow,
         w0 \in DigitLow}

\* the loop enters an iteration with a window below divisor * base: the
\* first window has a zero top limb, the later ones hold the remainder the
\* iteration before left, below the divisor, and one more limb
InitDigit ==
    /\ pc = "window"
    /\ z = DigitLimbs
    /\ y \in DigitDivisors(DigitLimbs)
    /\ x \in {W \in DigitWindows(DigitLimbs) : W < y * WideBase}
    /\ res = None

\* bn_div on non-negative dividends and positive divisors, and the single
\* iteration at base 16
InitAlgD ==
    \/ InitOn(Unsigned(DivBitsA), Unsigned(DivBitsB) \ {bn_new_zero}, {bn_new_zero})
    \/ InitDigit

NextAlgD == CallDiv \/ CallDigit

SpecAlgD == InitAlgD /\ [][NextAlgD]_vars

(***************************************************************************)
(* The claims.                                                             *)
(***************************************************************************)

\* C1: for every a and every nonzero b of either sign, bn_div returns
\* normally and its quotient q and remainder r satisfy q*b + r = a as signed
\* integers, with |r| < |b|.
DivIdentity ==
    pc = "div" =>
        /\ res.q.ok
        /\ res.r.ok
        /\ IntOf(res.q) * IntOf(y) + IntOf(res.r) = IntOf(x)
        /\ Abs(IntOf(res.r)) < Abs(IntOf(y))

\* C2: bn_mul leaves the exact product: the magnitude is the product of the
\* magnitudes, the sign is negative exactly when the operand signs differ and
\* the product is nonzero.
MulExact ==
    pc = "mul" =>
        /\ res.ok
        /\ Mag(res) = Mag(x) * Mag(y)
        /\ res.neg = (IF x.neg # y.neg /\ Mag(x) * Mag(y) # 0 THEN 1 ELSE 0)
        /\ IntOf(res) = IntOf(x) * IntOf(y)

\* a negative four-limb operand times a positive three-limb one: the
\* Karatsuba split with unequal halves
MulWitness ==
    pc = "mul" /\ x.nsig = 4 /\ y.nsig = 3 /\ x.neg = 1 /\ y.neg = 0 /\ res.neg = 1

\* C3: for odd m >= 3 and non-negative a and e, bn_mod_pow returns normally
\* and leaves 0 when a is zero, 1 when a is nonzero and e is zero, and
\* otherwise a^e mod m of the multiply-and-reduce reference, in [0, m).
PowCorrect ==
    pc = "pow" =>
        /\ res.ok
        /\ res.neg = 0
        /\ IntOf(res) = (IF IntOf(x) = 0 THEN 0
                         ELSE IF IntOf(y) = 0 THEN 1
                         ELSE PowRef(IntOf(x), IntOf(y), IntOf(z)))
        /\ IntOf(res) < IntOf(z)

\* a base above a three-limb modulus, raised to a three-bit exponent
PowWitness ==
    /\ pc = "pow"
    /\ z.nsig = 3
    /\ IntOf(x) > IntOf(z)
    /\ IntOf(y) = 7
    /\ IntOf(res) > 1

\* C4: for non-negative a and m >= 2 with gcd(a, m) = 1, bn_mod_inv returns 1
\* and leaves x with 0 <= x < m and (a * x) mod m = 1.
InvCorrect ==
    pc = "inv" /\ IntOf(y) >= 2 /\ Coprime(IntOf(x), IntOf(y)) =>
        /\ res.a.ok
        /\ res.ret = 1
        /\ 0 <= IntOf(res.a)
        /\ IntOf(res.a) < IntOf(y)
        /\ (IntOf(x) * IntOf(res.a)) % IntOf(y) = 1

\* an operand above a three-limb modulus with an inverse other than 1
InvWitness ==
    /\ pc = "inv"
    /\ y.nsig = 3
    /\ IntOf(x) > IntOf(y)
    /\ res.ret = 1
    /\ IntOf(res.a) > 1

\* C5: for non-negative a and m (m = 0 and a = 0 included) with
\* gcd(a, m) # 1, bn_mod_inv does not abort, returns 0 and leaves a as it was.
InvFailureKeepsA ==
    pc = "inv" /\ ~Coprime(IntOf(x), IntOf(y)) =>
        /\ res.a.ok
        /\ res.ret = 0
        /\ res.a = x

\* C6: for non-negative a and b, bn_gcd leaves the greatest common divisor
\* of a and b, with gcd(x, 0) = gcd(0, x) = x and gcd(0, 0) = 0.
GcdCorrect ==
    pc = "gcd" => res.ok /\ res.neg = 0 /\ IsGcd(IntOf(res), IntOf(x), IntOf(y))

\* gcd(48, 18) = 6
GcdWitness ==
    pc = "gcd" /\ IntOf(x) = 48 /\ IntOf(y) = 18 /\ IntOf(res) = 6

\* C7: bn_add leaves a + b and bn_sub leaves a - b for every sign
\* combination; a sum or difference of 0 is the canonical zero.
AddSubCorrect ==
    /\ pc = "add" => res.ok /\ IntOf(res) = IntOf(x) + IntOf(y)
    /\ pc = "sub" => res.ok /\ IntOf(res) = IntOf(x) - IntOf(y)
    /\ pc \in {"add", "sub"} /\ IntOf(res) = 0 => bn_is_zero(res)

\* add(x, negate(x)) for a negative three-limb x
AddWitness ==
    /\ pc = "add"
    /\ x.nsig = 3
    /\ x.neg = 1
    /\ IntOf(y) = 0 - IntOf(x)
    /\ bn_is_zero(res)

\* C8: after any sequence of calls of bn_new_from_bytes, bn_new_copy,
\* bn_add, bn_sub, bn_mul, bn_div, bn_mod, bn_and, bn_shl, bn_shr, bn_gcd,
\* bn_mod_inv and bn_mod_pow, every value the caller holds is canonical: the
\* zero without storage and with neg = 0, or nsig > 0, nsig <= nalloc and a
\* nonzero limb at index nsig - 1.
SeqCanonical ==
    pc = "run" => Canonical(x) /\ Canonical(y) /\ Canonical(z)

\* a negative value that the calls have trimmed twice without a
\* reallocation (one significant limb left in a three-limb buffer), next to
\* a two-limb b and a modulus
SeqWitness ==
    /\ pc = "run"
    /\ x.neg = 1 /\ x.nsig = 1 /\ x.nalloc = 3
    /\ y.nsig = 2
    /\ z.nsig = 1 /\ z.l[1] = 3

\* C9: every value bn_new_prob_prime(nbits) returns is odd and has exact bit
\* length nbits: bit 0 and bit nbits - 1 of its value are set, and no bit
\* from nbits on.
PrimeExactLength ==
    pc = "done" =>
        /\ Mag(res) % 2 = 1
        /\ (Mag(res) \div 2 ^ (y.nbits - 1)) % 2 = 1
        /\ Mag(res) < 2 ^ y.nbits

\* C10: the candidate loop of bn_new_prob_prime never reaches a fatal abort:
\* a rejected candidate is advanced by 2 and retried, and the loop ends only
\* by accepting a candidate.
PrimeNeverAborts == pc # "abort"

\* C11: bn_mod_pow with a = 2, e = 10 and m = 1000 returns normally and
\* leaves a equal to 24.
PowScenario ==
    pc = "pow" /\ IntOf(x) = 2 /\ IntOf(y) = 10 /\ IntOf(z) = 1000 =>
        res.ok /\ IntOf(res) = 24

\* C12: bn_div of 1000000000007 by 97 leaves quotient 10309278453 in the
\* first operand and returns remainder 86.
DivScenario ==
    /\ pc = "div"
    /\ x = BnDec(<<1, 0, 0, 0, 0, 0, 0, 0, 0, 0, 0, 0, 7>>)
    /\ IntOf(y) = 97
    => /\ res.q.ok
       /\ res.r.ok
       /\ res.q.neg = 0
       /\ Window(res.q.l, 0, res.q.nsig) = FromDecimal(<<1, 0, 3, 0, 9, 2, 7, 8, 4, 5, 3>>)
       /\ IntOf(res.r) = 86

\* C12 as amended: bn_div of 1000000000007 by 97 leaves quotient 10309278350
\* in the first operand and returns remainder 57.
DivScenarioExact ==
    /\ pc = "div"
    /\ x = BnDec(<<1, 0, 0, 0, 0, 0, 0, 0, 0, 0, 0, 0, 7>>)
    /\ IntOf(y) = 97
    => /\ res.q.ok
       /\ res.r.ok
       /\ res.q.neg = 0
       /\ Window(res.q.l, 0, res.q.nsig) = FromDecimal(<<1, 0, 3, 0, 9, 2, 7, 8, 3, 5, 0>>)
       /\ res.r.neg = 0
       /\ IntOf(res.r) = 57

\* the division of 1000000000007 by 97 has returned a quotient of 34 bits
DivScenarioWitness ==
    /\ pc = "div"
    /\ x = BnDec(<<1, 0, 0, 0, 0, 0, 0, 0, 0, 0, 0, 0, 7>>)
    /\ IntOf(y) = 97
    /\ res.q.ok
    /\ res.q.nsig * LIMB_BITS = 34

\* C13: in bn_div with a non-negative dividend and a positive divisor every
\* iteration of the quotient-digit loop keeps Algorithm D's invariant: on
\* entry the top window limb is at most the normalised divisor's top limb,
\* the correction loop decrements the estimate at most 2 times, the checks
\* of lines 760 and 769 never fail (at most one further decrement with one
\* add-back), and the stored digit is the exact floor of window / divisor,
\* leaving a window that is non-negative and smaller than the divisor.
DivInvariant ==
    /\ pc = "div" =>
           /\ res.q.ok
           /\ res.r.ok
           /\ ~res.over
           /\ res.dec <= 2
           /\ res.exact
    /\ pc = "digit" =>
           /\ res.ok
           /\ ~res.over
           /\ res.dec <= 2
           /\ res.q = x \div y
           /\ res.w = x % y

\* an iteration whose first estimate was two too high and was decremented
\* twice by the correction loop
DivInvariantWitness ==
    /\ pc = "digit"
    /\ res.ok
    /\ res.dec = 2
    /\ res.q = x \div y
    /\ res.q > 0

\* C14: for every dividend and every nonzero divisor, single-limb divisors
\* included, each limb index bn_div reads from the working dividend copy and
\* the normalised divisor, and each index it writes in the quotient buffer,
\* lies within the buffer; in particular the index j - 2 of the correction
\* loop is never negative.  The model's buffers are sequences of nalloc
\* limbs, and every access but the one at j - 2 is a sequence access that
\* is defined only inside the buffer; the read at j - 2 with j < 2 is
\* recorded in oob.
DivInBounds == pc = "div" => ~res.oob

====
